---- MODULE Spec2Model ----
(***************************************************************************)
(* Model of traffic-screenshot-scraper.py: one batch run is                *)
(*   resolve paths / load catalog -> retention sweep(s) -> capture loop    *)
(*   -> rebuild frames.json for the touched cameras.                       *)
(* The file system (staging and publish trees) persists between runs.      *)
(***************************************************************************)
EXTENDS Integers, Sequences, FiniteSets, TLC

VARIABLES
    clock,      \* wall clock (datetime.now()), in retention-window units
    roots,      \* root directories that exist on disk
    dirs,       \* per-camera directories that exist: <<root, cam_id>>
    files,      \* .jpg files on disk: [root, cam, name, mtime]
    manifest,   \* frames.json per <<root, cam_id>>: <<the list of names>>, or NoFile
    pc,         \* position of the running main()
    args,       \* parsed command line: [no_publish, keep_days, limit]
    cams_data,  \* the loaded catalog (json.load of cams.json)
    cutoff,     \* purge_older_than: local 'cutoff' of the sweep in progress
    pending,    \* purge_older_than: files root.rglob("*.jpg") has yet to yield
    selected,   \* main: the entries the all_cams iterator yields
    idx,        \* main: number of entries the capture loop has taken from all_cams
    touched,    \* main: the 'touched' set
    ts,         \* main: the run's timestamp string
    ran,        \* whether a run was started at the present clock value
    attempted,  \* history: positions in 'selected' for which ffmpeg was invoked
    failed,     \* history: positions in 'selected' whose invocation exited non-zero
    purged,     \* history: files the sweep in progress deleted, with the cutoff used
    errs,       \* history: files for which the sweep in progress caught an exception
    modes       \* history: the publish modes (no_publish values) of the runs so far

vars == <<clock, roots, dirs, files, manifest, pc, args, cams_data, cutoff, pending,
          selected, idx, touched, ts, ran, attempted, failed, purged, errs, modes>>

fsvars  == <<roots, dirs, files, manifest>>
runvars == <<args, cams_data, selected, idx, touched, ts>>
histvars == <<attempted, failed, purged, errs, modes>>

----------------------------------------------------------------------------
(* Bounds of the model *)

MaxClock == 1     \* the clock runs from 0 to MaxClock
MaxCams  == 2     \* cameras in a catalog

----------------------------------------------------------------------------
(* Values *)

None   == "None"          \* Python None: the value of cam.get(key) for an absent key
NoFile == <<>>            \* no frames.json in the directory
NoLimit == <<>>           \* args.limit is None (flag omitted); <<n>> is --limit n

STAGING == "staging"      \* staging_dir
PUBLISH == "publish"      \* publish_dir
Roots   == {STAGING, PUBLISH}

CamIds  == {"a", "b"}

\* camera objects of the catalog: cam.get("id"), cam.get("stream")
Entries ==
    { [id |-> "a",  stream |-> "u"],
      [id |-> "b",  stream |-> "u"],
      [id |-> None, stream |-> "u"],
      [id |-> "",   stream |-> "u"],
      [id |-> "a",  stream |-> None],
      [id |-> "b",  stream |-> ""] }

SeqsUpTo(S, n) == UNION { [1..k -> S] : k \in 0..n }

\* a region object: whether it has a "cams" key, and the list under it
Regions == { [has |-> FALSE, cams |-> <<>>] }
               \cup { [has |-> TRUE, cams |-> s] : s \in SeqsUpTo(Entries, MaxCams) }

\* county.get("cams", [])
GetCams(county) == IF county.has THEN county.cams ELSE <<>>

RECURSIVE Flatten(_)
\* line 85: (cam for county in cams_data for cam in county.get("cams", []))
Flatten(data) ==
    IF data = <<>> THEN <<>> ELSE GetCams(Head(data)) \o Flatten(Tail(data))

\* catalogs: one or two regions, at most MaxCams cameras in all
Catalogs ==
    { d \in [1..1 -> Regions] \cup [1..2 -> Regions] : Len(Flatten(d)) <= MaxCams }

KeepDays == {-1, 0, 1}
Limits   == {NoLimit} \cup { <<n>> : n \in -1 .. MaxCams }

\* the inputs of the runs that build up and age an archive: one region of up to
\* as many entries as there are cameras, among them an entry with an empty id
ArchiveEntries == { e \in Entries : e.stream = "u" /\ e.id # None }
ArchiveCatalogs ==
    { <<[has |-> TRUE, cams |-> s]>> : s \in SeqsUpTo(ArchiveEntries, Cardinality(CamIds)) }
ArchiveArgs == [no_publish : BOOLEAN, keep_days : KeepDays, limit : {NoLimit}]

----------------------------------------------------------------------------
(* Pure helpers of the program *)

\* line 90 / 101: strftime("%Y-%m-%dT%H-%M-%S") + ".jpg": fixed-width fields,
\* most significant first; a name is the sequence of its fields
Strftime(t) == <<t \div 2, t % 2>>

RECURSIVE StrLess(_, _)
\* Python's str ordering (used by sorted()): lexicographic, a proper prefix first
StrLess(x, y) ==
    IF y = <<>> THEN FALSE
    ELSE IF x = <<>> THEN TRUE
    ELSE IF Head(x) # Head(y) THEN Head(x) < Head(y)
    ELSE StrLess(Tail(x), Tail(y))

RECURSIVE SortedReversed(_)
\* variant of Sorted: descending order
SortedReversed(S) ==
    IF S = {} THEN <<>>
    ELSE LET m == CHOOSE x \in S : \A y \in S \ {x} : StrLess(y, x)
         IN  <<m>> \o SortedReversed(S \ {m})

RECURSIVE Sorted(_)
\* line 127: sorted([...]) of distinct names
Sorted(S) ==
    IF S = {} THEN <<>>
    ELSE LET m == CHOOSE x \in S : \A y \in S \ {x} : StrLess(x, y)
         IN  <<m>> \o Sorted(S \ {m})

\* line 127: [p.name for p in cam_folder.glob("*.jpg")]
GlobJpg(fs, r, c) == { f.name : f \in { g \in fs : g.root = r /\ g.cam = c } }

\* line 18: root.rglob("*.jpg")
RGlobJpg(fs, r) == { f \in fs : f.root = r }

\* variant of PurgeDisabled: the early return is missing
PurgeNeverDisabled(days) == FALSE
\* line 14: if days is None or days < 0: return
\* (--keep-days is type=int with an int default, so days is never None in main)
PurgeDisabled(days) == days < 0

\* line 17: cutoff = now - timedelta(days=days)
Cutoff(now, days) == now - days

\* variant of IsOld: "<=" for "<"
IsOldOrEqual(mtime, c) == mtime <= c
\* line 20: fromtimestamp(p.stat().st_mtime) < cutoff
IsOld(mtime, c) == mtime < c

\* variant of AfterRetentionError: the try/except is around the loop
AbortSweep(rest) == {}
\* lines 23-24: the exception is caught inside the loop body; the loop goes on
AfterRetentionError(rest) == rest

\* variant of ISlice: one entry too many
ISliceOffByOne(s, n) == SubSeq(s, 1, IF n + 1 < Len(s) THEN n + 1 ELSE Len(s))
\* line 87: itertools.islice(all_cams, n)
ISlice(s, n) == SubSeq(s, 1, IF n < Len(s) THEN n ELSE Len(s))

\* lines 85-87
AllCams(data, limit) ==
    IF limit # NoLimit /\ limit[1] >= 0 THEN ISlice(Flatten(data), limit[1])
    ELSE Flatten(data)

\* Python truthiness of cam.get(key): None and "" are falsy
Falsy(v) == v = None \/ v = ""

\* variant of Skip: the stream is not tested
SkipIdOnly(cam) == Falsy(cam.id)
\* line 96: if not cam_id or not stream_url: continue
Skip(cam) == Falsy(cam.id) \/ Falsy(cam.stream)

\* variant of Publishing: --no-publish is ignored
AlwaysPublish(a) == TRUE
\* lines 76, 81, 111: if not args.no_publish
Publishing(a) == ~a.no_publish

\* line 123: index_root = staging_dir if args.no_publish else publish_dir
IndexRoot(a) == IF a.no_publish THEN STAGING ELSE PUBLISH

\* variant of AfterCaptureFailure: the exception is not caught
AbortOnCaptureFailure == "aborted"
\* lines 118-120: except CalledProcessError: ...; continue
AfterCaptureFailure == "capture"

Ended == {"done", "aborted", "exit"}

----------------------------------------------------------------------------
Init ==
    /\ clock = 0
    /\ roots = {}
    /\ dirs = {}
    /\ files = {}
    /\ manifest = [d \in Roots \X CamIds |-> NoFile]
    /\ pc = "idle"
    /\ args = [no_publish |-> FALSE, keep_days |-> -1, limit |-> NoLimit]
    /\ cams_data = <<>>
    /\ cutoff = 0
    /\ pending = {}
    /\ selected = <<>>
    /\ idx = 0
    /\ touched = {}
    /\ ts = Strftime(0)
    /\ ran = FALSE
    /\ attempted = {}
    /\ failed = {}
    /\ purged = {}
    /\ errs = {}
    /\ modes = {}

----------------------------------------------------------------------------
(* The run *)

\* lines 26-77: parse the arguments, resolve the paths, find and load cams.json,
\* create the staging directory (and the publish directory when publishing)
StartWith(ArgSet, CatalogSet) ==
    /\ pc = "idle"
    /\ ~ran
    /\ \E a \in ArgSet, data \in CatalogSet :
        /\ args' = a
        /\ cams_data' = data
        /\ roots' = roots \cup {STAGING} \cup (IF Publishing(a) THEN {PUBLISH} ELSE {})
        /\ modes' = modes \cup {a.no_publish}
    /\ pc' = "call_purge_staging"
    /\ ran' = TRUE
    /\ selected' = <<>> /\ idx' = 0 /\ touched' = {}
    /\ attempted' = {} /\ failed' = {} /\ purged' = {} /\ errs' = {}
    /\ pending' = {}
    /\ UNCHANGED <<clock, dirs, files, manifest, cutoff, ts>>

\* lines 57-59: no candidate path of cams.json exists: sys.exit(1)
StartNoCatalog ==
    /\ pc = "idle"
    /\ ~ran
    /\ \E a \in ArchiveArgs : args' = a
    /\ pc' = "exit"
    /\ ran' = TRUE
    /\ selected' = <<>> /\ idx' = 0 /\ touched' = {}
    /\ attempted' = {} /\ failed' = {} /\ purged' = {} /\ errs' = {}
    /\ pending' = {}
    /\ UNCHANGED <<clock, roots, dirs, files, manifest, cams_data, cutoff, ts, modes>>

SweepRoot(p) == IF p \in {"call_purge_staging", "purge_staging"} THEN STAGING ELSE PUBLISH

\* where main() goes on after the sweep of root r (lines 80-84)
AfterSweep(r, a) ==
    IF r = STAGING /\ Publishing(a) THEN "call_purge_publish" ELSE "select"

\* lines 13-17 with days < 0: purge_older_than returns at once
PurgeSkip ==
    /\ pc \in {"call_purge_staging", "call_purge_publish"}
    /\ PurgeDisabled(args.keep_days)
    /\ pc' = AfterSweep(SweepRoot(pc), args)
    /\ UNCHANGED <<clock, fsvars, runvars, cutoff, pending, ran, histvars>>

\* lines 13-18: purge_older_than computes the cutoff and starts root.rglob("*.jpg")
PurgeEnter ==
    /\ pc \in {"call_purge_staging", "call_purge_publish"}
    /\ ~PurgeDisabled(args.keep_days)
    /\ cutoff' = Cutoff(clock, args.keep_days)
    /\ pending' = RGlobJpg(files, SweepRoot(pc))
    /\ errs' = {}
    /\ pc' = IF SweepRoot(pc) = STAGING THEN "purge_staging" ELSE "purge_publish"
    /\ UNCHANGED <<clock, fsvars, runvars, ran, attempted, failed, purged, modes>>

\* lines 18-22: one iteration of the loop whose try body raises nothing
PurgeStep ==
    /\ pc \in {"purge_staging", "purge_publish"}
    /\ \E p \in pending :
        /\ pending' = pending \ {p}
        /\ IF IsOld(p.mtime, cutoff)
           THEN /\ files' = files \ {p}
                /\ purged' = purged \cup {[file |-> p, cutoff |-> cutoff]}
           ELSE UNCHANGED <<files, purged>>
    /\ UNCHANGED <<clock, roots, dirs, manifest, pc, runvars, cutoff, ran,
                   attempted, failed, errs, modes>>

\* lines 19-24: one iteration whose try body raises (p.stat() or p.unlink()):
\* the file stays, the exception is printed
PurgeError ==
    /\ pc \in {"purge_staging", "purge_publish"}
    /\ \E p \in pending :
        /\ pending' = AfterRetentionError(pending \ {p})
        /\ errs' = errs \cup {p}
    /\ UNCHANGED <<clock, fsvars, pc, runvars, cutoff, ran,
                   attempted, failed, purged, modes>>

\* line 18 exhausted: purge_older_than returns
PurgeReturn ==
    /\ pc \in {"purge_staging", "purge_publish"}
    /\ pending = {}
    /\ pc' = AfterSweep(SweepRoot(pc), args)
    /\ cutoff' = 0 /\ purged' = {} /\ errs' = {}
    /\ UNCHANGED <<clock, fsvars, runvars, pending, ran, attempted, failed, modes>>

\* lines 84-90
Select ==
    /\ pc = "select"
    /\ selected' = AllCams(cams_data, args.limit)
    /\ idx' = 0
    /\ touched' = {}
    /\ ts' = Strftime(clock)
    /\ pc' = "capture"
    /\ UNCHANGED <<clock, fsvars, args, cams_data, cutoff, pending, ran, histvars>>

\* writing (or overwriting) one file
WriteFile(fs, r, c, n, m) ==
    { f \in fs : ~(f.root = r /\ f.cam = c /\ f.name = n) }
        \cup { [root |-> r, cam |-> c, name |-> n, mtime |-> m] }

\* the file a copy2 of <<STAGING, c, n>> leaves in the publish tree (metadata kept)
Copy2(fs, c, n) ==
    LET src == CHOOSE f \in fs : f.root = STAGING /\ f.cam = c /\ f.name = n
    IN  WriteFile(fs, PUBLISH, c, n, src.mtime)

\* lines 93-97: an entry without id or stream
SkipEntry ==
    /\ pc = "capture"
    /\ idx < Len(selected)
    /\ Skip(selected[idx + 1])
    /\ idx' = idx + 1
    /\ UNCHANGED <<clock, fsvars, pc, args, cams_data, selected, touched, ts,
                   cutoff, pending, ran, histvars>>

\* lines 99-117: ffmpeg exits 0
CaptureOk ==
    /\ pc = "capture"
    /\ idx < Len(selected)
    /\ ~Skip(selected[idx + 1])
    /\ LET c == selected[idx + 1].id
           staged == WriteFile(files, STAGING, c, ts, clock)
       IN  /\ dirs' = dirs \cup {<<STAGING, c>>}
                        \cup (IF Publishing(args) THEN {<<PUBLISH, c>>} ELSE {})
           /\ files' = IF Publishing(args) THEN Copy2(staged, c, ts) ELSE staged
           /\ touched' = touched \cup {c}
    /\ attempted' = attempted \cup {idx + 1}
    /\ idx' = idx + 1
    /\ UNCHANGED <<clock, roots, manifest, pc, args, cams_data, selected, ts,
                   cutoff, pending, ran, failed, purged, errs, modes>>

\* lines 99-108, 118-120: ffmpeg exits non-zero (CalledProcessError); what it
\* left at the output path is up to ffmpeg
CaptureFail ==
    /\ pc = "capture"
    /\ idx < Len(selected)
    /\ ~Skip(selected[idx + 1])
    /\ LET c == selected[idx + 1].id
       IN  /\ dirs' = dirs \cup {<<STAGING, c>>}
           /\ \E wrote \in BOOLEAN :
                files' = IF wrote THEN WriteFile(files, STAGING, c, ts, clock) ELSE files
    /\ attempted' = attempted \cup {idx + 1}
    /\ failed' = failed \cup {idx + 1}
    /\ idx' = idx + 1
    /\ pc' = AfterCaptureFailure
    /\ UNCHANGED <<clock, roots, manifest, args, cams_data, selected, touched, ts,
                   cutoff, pending, ran, purged, errs, modes>>

\* lines 99-108: subprocess.run raises something else (ffmpeg cannot be started):
\* nothing catches it and the run ends with a traceback
CaptureRaises ==
    /\ pc = "capture"
    /\ idx < Len(selected)
    /\ ~Skip(selected[idx + 1])
    /\ dirs' = dirs \cup {<<STAGING, selected[idx + 1].id>>}
    /\ attempted' = attempted \cup {idx + 1}
    /\ idx' = idx + 1
    /\ pc' = "aborted"
    /\ UNCHANGED <<clock, roots, files, manifest, args, cams_data, selected, touched,
                   ts, cutoff, pending, ran, failed, purged, errs, modes>>

\* lines 122-131: the loop is exhausted; frames.json is rebuilt for the touched cameras
Index ==
    /\ pc = "capture"
    /\ idx = Len(selected)
    /\ manifest' = [d \in Roots \X CamIds |->
                      IF d[1] = IndexRoot(args) /\ d[2] \in touched /\ d \in dirs
                      THEN << Sorted(GlobJpg(files, d[1], d[2])) >>
                      ELSE manifest[d]]
    /\ pc' = "done"
    /\ UNCHANGED <<clock, roots, dirs, files, runvars, cutoff, pending, ran, histvars>>

\* the process exits (line 59, line 131, or the traceback): its locals are gone
Exit ==
    /\ pc \in Ended
    /\ pc' = "idle"
    /\ args' = [no_publish |-> FALSE, keep_days |-> -1, limit |-> NoLimit]
    /\ cams_data' = <<>>
    /\ cutoff' = 0 /\ pending' = {}
    /\ selected' = <<>> /\ idx' = 0 /\ touched' = {} /\ ts' = Strftime(0)
    /\ attempted' = {} /\ failed' = {} /\ purged' = {} /\ errs' = {}
    /\ UNCHANGED <<clock, fsvars, ran, modes>>

\* time passes between two runs (a run is short against the clock's unit, and
\* successive runs start at distinct clock values: their frames get distinct names)
Tick ==
    /\ pc = "idle"
    /\ clock < MaxClock
    /\ clock' = clock + 1
    /\ ran' = FALSE
    /\ UNCHANGED <<fsvars, pc, runvars, cutoff, pending, histvars>>

Start == StartWith(ArchiveArgs, ArchiveCatalogs)

Next ==
    \/ Start
    \/ StartNoCatalog
    \/ PurgeSkip
    \/ PurgeEnter
    \/ PurgeStep
    \/ PurgeError
    \/ PurgeReturn
    \/ Select
    \/ SkipEntry
    \/ CaptureOk
    \/ CaptureFail
    \/ CaptureRaises
    \/ Index
    \/ Exit
    \/ Tick

Spec == Init /\ [][Next]_vars

----------------------------------------------------------------------------
(* One run over a standing archive *)

\* the archive that publishing runs for camera "a" at every clock value 0..last
\* leave behind (no retention, every capture succeeded), one clock unit later
Archive(last) ==
    /\ clock = last + 1
    /\ roots = Roots
    /\ dirs = {<<STAGING, "a">>, <<PUBLISH, "a">>}
    /\ files = { [root |-> r, cam |-> "a", name |-> Strftime(t), mtime |-> t] :
                    r \in Roots, t \in 0..last }
    /\ manifest = [d \in Roots \X CamIds |->
                      IF d = <<PUBLISH, "a">>
                      THEN << Sorted({ Strftime(t) : t \in 0..last }) >>
                      ELSE NoFile]
    /\ pc = "idle"
    /\ args = [no_publish |-> FALSE, keep_days |-> -1, limit |-> NoLimit]
    /\ cams_data = <<>>
    /\ cutoff = 0
    /\ pending = {}
    /\ selected = <<>>
    /\ idx = 0
    /\ touched = {}
    /\ ts = Strftime(0)
    /\ ran = FALSE
    /\ attempted = {}
    /\ failed = {}
    /\ purged = {}
    /\ errs = {}
    /\ modes = {FALSE}

InitAged == Archive(MaxClock)

\* one run with the inputs of Spec; the program runs to its end once started
NextRun ==
    \/ Start
    \/ StartNoCatalog
    \/ PurgeSkip
    \/ PurgeEnter
    \/ PurgeStep
    \/ PurgeError
    \/ PurgeReturn
    \/ Select
    \/ SkipEntry
    \/ CaptureOk
    \/ CaptureFail
    \/ CaptureRaises
    \/ Index
    \/ Exit

SpecPurge == InitAged /\ [][NextRun]_vars /\ WF_vars(NextRun)

InitCatalog == Archive(0)

\* one run with any catalog and any limit
StartAny == StartWith([no_publish : BOOLEAN, keep_days : {-1, 0}, limit : Limits], Catalogs)

NextCatalog ==
    \/ StartAny
    \/ StartNoCatalog
    \/ PurgeSkip
    \/ PurgeEnter
    \/ PurgeStep
    \/ PurgeError
    \/ PurgeReturn
    \/ Select
    \/ SkipEntry
    \/ CaptureOk
    \/ CaptureFail
    \/ CaptureRaises
    \/ Index
    \/ Exit

SpecCatalog == InitCatalog /\ [][NextCatalog]_vars

----------------------------------------------------------------------------
(* The claims *)

\* an entry that lacks an id or a stream: the key is absent or its value is empty
Lacks(cam) == cam.id \in {None, ""} \/ cam.stream \in {None, ""}

\* the root the manifests of the run are written under
Indexed == IF args.no_publish THEN STAGING ELSE PUBLISH

Range(s) == { s[i] : i \in 1..Len(s) }

\* m lists exactly the names of S, in ascending order of name
IsSortedListing(m, S) ==
    /\ Len(m) = Cardinality(S)
    /\ Range(m) = S
    /\ \A i, j \in 1..Len(m) : i < j => StrLess(m[i], m[j])

Sweeping == pc \in {"purge_staging", "purge_publish"}

\* C1: a capture invocation that exits non-zero does not abort the run: the run
\* is never ended by the entry that failed, and when the run ends normally every
\* valid entry selected after a failed one has been attempted.
C1_FailureDoesNotAbort ==
    /\ (failed # {} /\ pc = "aborted") => idx \notin failed
    /\ failed # {} => pc \in {"capture", "done", "aborted"}
    /\ pc = "done" =>
         /\ idx = Len(selected)
         /\ \A i \in failed : \A j \in (i + 1)..Len(selected) :
                ~Lacks(selected[j]) => j \in attempted

C1_Witness ==
    /\ pc = "done"
    /\ \E i \in failed : \E j \in attempted : j > i /\ j \notin failed
                                              /\ selected[j].id \in touched

\* C2 (as claimed): after a run, no frame file named with the run's timestamp
\* exists, in either root, in the directory of a camera whose capture failed.
C2_NoFrameOfFailedCapture ==
    pc = "done" =>
        \A i \in failed : \A f \in files :
            ~(f.cam = selected[i].id /\ f.name = ts)

\* C3: at the end of a run the manifest of every touched camera, under the
\* indexed root, is the list sorted by name of exactly the .jpg files of the
\* camera's directory there, and it contains the frame of this run.
C3_ManifestOfTouched ==
    pc = "done" =>
        \A c \in touched :
            LET m == manifest[<<Indexed, c>>]
            IN  /\ m # NoFile
                /\ IsSortedListing(m[1], { f.name : f \in { g \in files :
                                              g.root = Indexed /\ g.cam = c } })
                /\ ts \in Range(m[1])

C3_Witness ==
    /\ pc = "done"
    /\ \E c \in touched :
          /\ manifest[<<Indexed, c>>] # NoFile
          /\ Len(manifest[<<Indexed, c>>][1]) >= 2

\* C4: with a limit N >= 0 and a flattened catalog of M > N entries the loop
\* takes exactly the first N entries in catalog order: an entry skipped for a
\* missing field uses up a slot, and no entry beyond position N is attempted.
C4_LimitBeforeValidation ==
    LET flat == Flatten(cams_data)
    IN  (pc \in {"capture", "done", "aborted"} /\ args.limit # NoLimit) =>
        LET N == args.limit[1]
        IN  (N >= 0 /\ Len(flat) > N) =>
              /\ Len(selected) = N
              /\ \A i \in 1..N : selected[i] = flat[i]
              /\ idx <= N
              /\ attempted \subseteq 1..N
              /\ pc = "done" => attempted = { i \in 1..N : ~Lacks(flat[i]) }

C4_Witness ==
    /\ pc = "done"
    /\ args.limit = <<1>>
    /\ Len(Flatten(cams_data)) = 2
    /\ Lacks(Flatten(cams_data)[1])
    /\ ~Lacks(Flatten(cams_data)[2])
    /\ attempted = {}
    /\ idx = 1

\* C5: a sweep with N >= 0 days deletes a .jpg file only if its last-modified
\* time is strictly earlier than now - N, and once the sweep has gone through
\* the root every file there that raised no error is gone if it was strictly
\* earlier than the cutoff and still there if it was at the cutoff or later.
C5_StrictlyOlderDeleted ==
    Sweeping =>
        LET c == clock - args.keep_days
            r == IF pc = "purge_staging" THEN STAGING ELSE PUBLISH
        IN  /\ args.keep_days >= 0
            /\ \A d \in purged :
                  /\ d.cutoff = c
                  /\ d.file.mtime < c
                  /\ d.file.root = r
                  /\ d.file \notin files
            /\ pending = {} =>
                  \A f \in files : (f.root = r /\ f \notin errs) => f.mtime >= c

C5_Witness ==
    /\ Sweeping
    /\ pending = {}
    /\ errs = {}
    /\ \E d \in purged : d.file.mtime = d.cutoff - 1
    /\ \E f \in files : f.root = SweepRoot(pc) /\ f.mtime = cutoff

\* C6: the loop's step over an entry that lacks an id or a stream creates no
\* directory, writes no file, invokes no capture, adds nothing to the touched
\* set, and goes on with the next entry.
C6_SkippedEntryNoEffect ==
    [][ (pc = "capture" /\ idx < Len(selected) /\ Lacks(selected[idx + 1])) =>
            /\ UNCHANGED <<roots, dirs, files, manifest, touched, attempted, failed>>
            /\ idx' = idx + 1
            /\ pc' = "capture" ]_vars

C6_Witness ==
    /\ pc = "done"
    /\ \E i \in 1..Len(selected) :
          /\ Lacks(selected[i])
          /\ \E j \in attempted : j > i /\ selected[j].id \in touched

\* C7: with a negative retention setting the sweeps of a run delete no file,
\* in either root, whatever its age.
C7_NegativeRetentionDeletesNothing ==
    [][ (args.keep_days < 0 /\ pc \in {"call_purge_staging", "call_purge_publish",
                                        "purge_staging", "purge_publish"}) =>
            /\ files' = files
            /\ pc' \in {"call_purge_publish", "select"} ]_vars

C7_Witness ==
    /\ pc = "select"
    /\ args.keep_days < 0
    /\ ~args.no_publish
    /\ \A r \in Roots : \E f \in files : f.root = r /\ f.mtime < clock

\* the publish tree: the directory, its camera directories, their frames and manifests
PublishTree ==
    << PUBLISH \in roots,
       { d \in dirs : d[1] = PUBLISH },
       { f \in files : f.root = PUBLISH },
       [c \in CamIds |-> manifest[<<PUBLISH, c>>]] >>

\* C8: no step of a run with publishing disabled creates, changes or deletes
\* anything under the publish directory.
C8_NoPublishLeavesPublishTree ==
    [][ ((pc # "idle" /\ args.no_publish) \/ (pc = "idle" /\ pc' # "idle" /\ args'.no_publish))
            => PublishTree' = PublishTree ]_vars

C8_Witness ==
    /\ pc = "done"
    /\ args.no_publish
    /\ args.keep_days = 0
    /\ \E c \in touched :
          /\ manifest[<<STAGING, c>>] # NoFile
          /\ manifest[<<PUBLISH, c>>] # NoFile
          /\ \E f \in files : f.root = PUBLISH /\ f.cam = c /\ f.mtime < clock

\* C9: an error on one file does not end the sweep: the sweep stays in its loop,
\* once it has gone through the root every other file strictly older than the
\* cutoff is deleted, and the run goes on to the capture step.
C9_SweepSurvivesErrors ==
    /\ [][ errs' # errs /\ errs' # {} => pc' = pc ]_vars
    /\ [] ( (Sweeping /\ pending = {} /\ errs # {}) =>
               \A f \in files :
                  (f.root = SweepRoot(pc) /\ f.mtime < clock - args.keep_days) => f \in errs )
    /\ (errs # {}) ~> (pc = "capture")

C9_Witness ==
    /\ Sweeping
    /\ pending = {}
    /\ \E e \in errs : e.mtime < cutoff
    /\ purged # {}

\* C10 (as claimed): over runs with the same publish mode, at the end of each
\* run every manifest under the indexed root lists exactly the .jpg files of
\* its directory, for every camera directory.
C10_EveryManifestCurrent ==
    (pc = "done" /\ Cardinality(modes) = 1) =>
        \A c \in CamIds :
            LET m == manifest[<<Indexed, c>>]
            IN  m # NoFile =>
                  Range(m[1]) = { f.name : f \in { g \in files :
                                      g.root = Indexed /\ g.cam = c } }

====
